---- MODULE Spec2Model ----
(***************************************************************************)
(* Web3 sign-in (EIP-4361 / SIWS) verification and envelope encryption of  *)
(* internal/api/provider/eip4361.go, as a state machine.                   *)
(*                                                                         *)
(* Cryptographic primitives (ed25519, secp256k1 recovery, HKDF, AES-GCM)   *)
(* are modelled symbolically: a signature names its signer and the signed  *)
(* bytes, a derived key names the key material and the derivation info, a  *)
(* ciphertext names the key, nonce and plaintext it was sealed with.       *)
(* Times are naturals, 0 being Go's zero time.Time.                        *)
(***************************************************************************)
EXTENDS Integers, Sequences, FiniteSets, TLC

VARIABLES provider, now, pc, req, resp, env

vars == <<provider, now, pc, req, resp, env>>

(* ------------------------------ bounds --------------------------------- *)

MaxTime == 4

MaxDur == 1

MaxLen == 2

(* ----------------------------- constants ------------------------------- *)

BlockchainEthereum == "ethereum"

BlockchainSolana == "solana"

NoProvider == [kind |-> "none"]

NoReq == [op |-> "none"]

NoResp == [op |-> "none"]

NoEnv == [kind |-> "none"]

(* --------------------- SIWS helpers (package siws) --------------------- *)

\* Sample texts: the empty string and one non-empty signed text.
EmptyText == [kind |-> "empty"]

RawText == [kind |-> "raw"]

\* An ed25519 signature: empty, or made by the holder of a key over a text.
EmptySig == [len |-> 0, signer |-> "none", text |-> EmptyText]

Ed25519Sign(key, text) == [len |-> 64, signer |-> key, text |-> text]

\* base58.Decode: the address strings used here and the bytes they encode.
Base58Decode(address) ==
    CASE address = "addrA" -> [len |-> 32, key |-> "A"]
      [] address = "addrB" -> [len |-> 32, key |-> "B"]
      [] address = "addrShort" -> [len |-> 31, key |-> "none"]
      [] OTHER -> [len |-> 0, key |-> "none"]

\* ed25519.Verify(pubKey, message, sig)
Ed25519Verify(pubKey, text, sig) ==
    /\ sig.len = 64
    /\ pubKey.len = 32
    /\ sig.signer = pubKey.key
    /\ sig.text = text

IsValidDomain(d) == d \in {"example.com", "Example.com", "example.org"}

IsBase58PubKey(pubKey) == pubKey.len = 32

IsValidSolanaNetwork(c) == c \in {"mainnet", "testnet", "devnet"}

\* url.Parse succeeds on the empty string and on ordinary URLs; a string
\* starting with a colon has no protocol scheme and is an error.
UrlParseOK(u) == u # ":foo"

NilMsg == [kind |-> "nil"]

RECURSIVE FirstBadResource(_, _)
FirstBadResource(resources, i) ==
    IF i > Len(resources) THEN 0
    ELSE IF ~UrlParseOK(resources[i]) THEN i
    ELSE FirstBadResource(resources, i + 1)

(* ------------------------------ VerifySIWS ----------------------------- *)

\* 1) basic input validation
SIWSBasicChecks(rawMessage, signature, msg) ==
    IF rawMessage = EmptyText THEN "ErrEmptyRawMessage"
    ELSE IF signature.len = 0 THEN "ErrEmptySignature"
    ELSE IF msg = NilMsg THEN "ErrNilMessage"
    ELSE "nil"

\* A case-folding comparison, as strings.EqualFold would make it.
ToLower(d) == IF d = "Example.com" THEN "example.com" ELSE d

SIWSDomainChecks_fold(msg, params) ==
    IF params.ExpectedDomain = "" THEN "ErrMissingDomain"
    ELSE IF ~IsValidDomain(msg.Domain) THEN "ErrInvalidDomainFormat"
    ELSE IF ToLower(msg.Domain) # ToLower(params.ExpectedDomain) THEN "ErrDomainMismatch"
    ELSE "nil"

\* 2) domain validation
SIWSDomainChecks(msg, params) ==
    IF params.ExpectedDomain = "" THEN "ErrMissingDomain"
    ELSE IF ~IsValidDomain(msg.Domain) THEN "ErrInvalidDomainFormat"
    ELSE IF msg.Domain # params.ExpectedDomain THEN "ErrDomainMismatch"
    ELSE "nil"

\* 3) - 7) public key, version, chain ID, nonce, URI and resources
SIWSFieldChecks(msg) ==
    IF ~IsBase58PubKey(Base58Decode(msg.Address)) THEN "ErrInvalidPubKeySize"
    ELSE IF msg.Version # "1" THEN "ErrInvalidVersion"
    ELSE IF msg.ChainID # "" /\ ~IsValidSolanaNetwork(msg.ChainID) THEN "ErrInvalidChainID"
    ELSE IF msg.Nonce # "" /\ Len(msg.Nonce) < 8 THEN "ErrNonceTooShort"
    ELSE IF msg.URI # "" /\ ~UrlParseOK(msg.URI) THEN "ErrInvalidURI"
    ELSE IF FirstBadResource(msg.Resources, 1) # 0 THEN "ErrInvalidResourceURI"
    ELSE "nil"

\* 8) signature verification against the key decoded from the MESSAGE's address
SIWSSignatureCheck(rawMessage, signature, msg) ==
    IF ~Ed25519Verify(Base58Decode(msg.Address), rawMessage, signature)
    THEN "ErrSignatureVerification"
    ELSE "nil"

SIWSTimeChecks_offByOne(msg, params, t) ==
    IF msg.IssuedAt # 0 /\ t < msg.IssuedAt THEN "ErrFutureMessage"
    ELSE IF /\ msg.IssuedAt # 0
            /\ params.CheckTime /\ params.TimeDuration > 0
            /\ t >= msg.IssuedAt + params.TimeDuration THEN "ErrMessageExpired"
    ELSE IF msg.NotBefore # 0 /\ t < msg.NotBefore THEN "ErrNotYetValid"
    ELSE IF msg.ExpirationTime # 0 /\ t > msg.ExpirationTime THEN "ErrMessageExpired"
    ELSE "nil"

\* 9) time validations against t = time.Now().UTC()
SIWSTimeChecks(msg, params, t) ==
    IF msg.IssuedAt # 0 /\ t < msg.IssuedAt THEN "ErrFutureMessage"
    ELSE IF /\ msg.IssuedAt # 0
            /\ params.CheckTime /\ params.TimeDuration > 0
            /\ t > msg.IssuedAt + params.TimeDuration THEN "ErrMessageExpired"
    ELSE IF msg.NotBefore # 0 /\ t < msg.NotBefore THEN "ErrNotYetValid"
    ELSE IF msg.ExpirationTime # 0 /\ t > msg.ExpirationTime THEN "ErrMessageExpired"
    ELSE "nil"

VerifySIWS_timeFirst(rawMessage, signature, msg, params, t) ==
    IF SIWSBasicChecks(rawMessage, signature, msg) # "nil"
    THEN SIWSBasicChecks(rawMessage, signature, msg)
    ELSE IF SIWSDomainChecks(msg, params) # "nil" THEN SIWSDomainChecks(msg, params)
    ELSE IF SIWSFieldChecks(msg) # "nil" THEN SIWSFieldChecks(msg)
    ELSE IF SIWSTimeChecks(msg, params, t) # "nil" THEN SIWSTimeChecks(msg, params, t)
    ELSE SIWSSignatureCheck(rawMessage, signature, msg)

VerifySIWS(rawMessage, signature, msg, params, t) ==
    IF SIWSBasicChecks(rawMessage, signature, msg) # "nil"
    THEN SIWSBasicChecks(rawMessage, signature, msg)
    ELSE IF SIWSDomainChecks(msg, params) # "nil" THEN SIWSDomainChecks(msg, params)
    ELSE IF SIWSFieldChecks(msg) # "nil" THEN SIWSFieldChecks(msg)
    ELSE IF SIWSSignatureCheck(rawMessage, signature, msg) # "nil"
         THEN SIWSSignatureCheck(rawMessage, signature, msg)
    ELSE SIWSTimeChecks(msg, params, t)

(* ------------------- specification of VerifySIWS alone ----------------- *)

Times == 0..MaxTime

SIWSMessages ==
    [Domain : {"example.com", "Example.com", "bad domain"},
     Address : {"addrA", "addrShort"},
     Statement : {"Sign in"},
     Version : {"1", "2"},
     ChainID : {"", "mainnet", "ethereum-1"},
     Nonce : {"", "abc1234", "abcd1234"},
     URI : {"", "https://example.com", ":foo"},
     Resources : {<<>>, <<"https://a.example">>, <<"https://a.example", ":foo">>},
     IssuedAt : Times,
     NotBefore : {0, MaxTime},
     ExpirationTime : {0, MaxTime - 1}]

SIWSParams ==
    [ExpectedDomain : {"", "example.com"},
     CheckTime : BOOLEAN,
     TimeDuration : 0..MaxDur]

SIWSInputs ==
    [op : {"VerifySIWS"},
     rawMessage : {EmptyText, RawText},
     signature : {EmptySig, Ed25519Sign("A", RawText), Ed25519Sign("B", RawText)},
     msg : {NilMsg} \cup SIWSMessages,
     params : SIWSParams]

\* VerifySIWS as a function of its arguments and of the clock reading.
InitSIWS ==
    /\ provider = NoProvider
    /\ env = NoEnv
    /\ pc = "siws"
    /\ now \in {MaxTime - 1, MaxTime}
    /\ req \in SIWSInputs
    /\ resp = NoResp

CallVerifySIWS ==
    /\ pc = "siws"
    /\ resp' = [op |-> "VerifySIWS", at |-> now,
                err |-> VerifySIWS(req.rawMessage, req.signature, req.msg, req.params, now)]
    /\ UNCHANGED <<provider, now, pc, req, env>>

NextSIWS == CallVerifySIWS

SpecSIWS == InitSIWS /\ [][NextSIWS]_vars

(* --------- VerifySIWS of one message called again as time passes -------- *)

ClockMessages ==
    [Domain : {"example.com", "Example.com"},
     Address : {"addrA"},
     Statement : {"Sign in"},
     Version : {"1"},
     ChainID : {""},
     Nonce : {"abcd1234"},
     URI : {"https://example.com"},
     Resources : {<<>>},
     IssuedAt : Times,
     NotBefore : {0, MaxTime},
     ExpirationTime : {0, MaxTime - 1}]

ClockInputs ==
    [op : {"VerifySIWS"},
     rawMessage : {RawText},
     signature : {Ed25519Sign("A", RawText), Ed25519Sign("B", RawText)},
     msg : ClockMessages,
     params : [ExpectedDomain : {"example.com"}, CheckTime : BOOLEAN,
               TimeDuration : 0..MaxDur]]

InitClock ==
    /\ provider = NoProvider
    /\ env = NoEnv
    /\ pc = "siws"
    /\ now = 1
    /\ req \in ClockInputs
    /\ resp = NoResp

\* time.Now() advances between calls.
Tick ==
    /\ now < MaxTime
    /\ now' = now + 1
    /\ UNCHANGED <<provider, pc, req, resp, env>>

NextClock == Tick \/ CallVerifySIWS

SpecClock == InitClock /\ [][NextClock]_vars

(* ------------------------- claims on VerifySIWS ------------------------ *)

\* The checks of VerifySIWS in the documented order, each as a predicate on
\* the call's arguments.
SIWSCheckFails(k, in, t) ==
    CASE k = 1 -> in.rawMessage = EmptyText
      [] k = 2 -> in.signature.len = 0
      [] k = 3 -> in.msg = NilMsg
      [] k = 4 -> in.params.ExpectedDomain = ""
      [] k = 5 -> ~IsValidDomain(in.msg.Domain)
      [] k = 6 -> in.msg.Domain # in.params.ExpectedDomain
      [] k = 7 -> Base58Decode(in.msg.Address).len # 32
      [] k = 8 -> in.msg.Version # "1"
      [] k = 9 -> in.msg.ChainID # "" /\ ~IsValidSolanaNetwork(in.msg.ChainID)
      [] k = 10 -> in.msg.Nonce # "" /\ Len(in.msg.Nonce) < 8
      [] k = 11 -> in.msg.URI # "" /\ ~UrlParseOK(in.msg.URI)
      [] k = 12 -> \E i \in 1..Len(in.msg.Resources) : ~UrlParseOK(in.msg.Resources[i])
      [] k = 13 -> ~Ed25519Verify(Base58Decode(in.msg.Address), in.rawMessage, in.signature)
      [] k = 14 -> in.msg.IssuedAt # 0 /\ t < in.msg.IssuedAt
      [] k = 15 -> /\ in.msg.IssuedAt # 0 /\ in.params.CheckTime
                   /\ in.params.TimeDuration > 0
                   /\ t > in.msg.IssuedAt + in.params.TimeDuration
      [] k = 16 -> in.msg.NotBefore # 0 /\ t < in.msg.NotBefore
      [] k = 17 -> in.msg.ExpirationTime # 0 /\ t > in.msg.ExpirationTime

SIWSCheckError ==
    <<"ErrEmptyRawMessage", "ErrEmptySignature", "ErrNilMessage",
      "ErrMissingDomain", "ErrInvalidDomainFormat", "ErrDomainMismatch",
      "ErrInvalidPubKeySize", "ErrInvalidVersion", "ErrInvalidChainID",
      "ErrNonceTooShort", "ErrInvalidURI", "ErrInvalidResourceURI",
      "ErrSignatureVerification", "ErrFutureMessage", "ErrMessageExpired",
      "ErrNotYetValid", "ErrMessageExpired">>

RECURSIVE FirstFailing(_, _, _, _)
FirstFailing(k, last, in, t) ==
    IF k > last THEN 0
    ELSE IF SIWSCheckFails(k, in, t) THEN k
    ELSE FirstFailing(k + 1, last, in, t)

SIWSCalled == resp.op = "VerifySIWS"

\* C3: VerifySIWS returns the error of the first failing check in the order
\* basic input, domain, public key, version, chain ID, nonce, URI, resources,
\* signature, time (future, window expiry, notBefore, expirationTime), and nil
\* exactly when no check fails; in particular a bad signature is reported as
\* ErrSignatureVerification also when a time check would fail.
C3_OrderedPipeline ==
    SIWSCalled =>
        LET k == FirstFailing(1, 17, req, resp.at)
        IN /\ resp.err = (IF k = 0 THEN "nil" ELSE SIWSCheckError[k])
           /\ (FirstFailing(1, 12, req, resp.at) = 0
                 /\ SIWSCheckFails(13, req, resp.at))
              => resp.err = "ErrSignatureVerification"

C3_Witness ==
    /\ SIWSCalled
    /\ resp.err = "ErrSignatureVerification"
    /\ req.msg.ExpirationTime # 0
    /\ resp.at > req.msg.ExpirationTime

\* The case C4 is about: checks 1-8 pass, issuedAt is set, notBefore and
\* expirationTime are unset, checkExpiry is on and the window is positive.
C4_Case ==
    /\ req.op = "VerifySIWS"
    /\ FirstFailing(1, 13, req, now) = 0
    /\ req.msg.IssuedAt # 0
    /\ req.msg.NotBefore = 0
    /\ req.msg.ExpirationTime = 0
    /\ req.params.CheckTime
    /\ req.params.TimeDuration > 0

C4_Outcome ==
    (SIWSCalled /\ C4_Case) =>
        LET ia == req.msg.IssuedAt
            w == req.params.TimeDuration
        IN /\ (resp.err = "nil") <=> (ia <= resp.at /\ resp.at <= ia + w)
           /\ (resp.at < ia) => resp.err = "ErrFutureMessage"
           /\ (resp.at > ia + w) => resp.err = "ErrMessageExpired"

\* C4: with checks 1-8 passing, issuedAt set, notBefore/expirationTime unset,
\* checkExpiry on and a positive window, VerifySIWS succeeds exactly when
\* issuedAt <= now <= issuedAt + window, reports ErrFutureMessage before and
\* ErrMessageExpired after; once rejected as expired, every later call is
\* rejected as expired too.
C4_TimeWindow ==
    /\ []C4_Outcome
    /\ [][(C4_Case /\ SIWSCalled /\ resp.err = "ErrMessageExpired")
            => resp'.err = "ErrMessageExpired"]_vars

\* Rejected as expired at the window's end + 1, and rejected again later.
C4_Witness ==
    /\ SIWSCalled /\ C4_Case
    /\ resp.err = "ErrMessageExpired"
    /\ resp.at > req.msg.IssuedAt + req.params.TimeDuration + 1

\* C5 (VerifySIWS): no success unless the message's domain is exactly the
\* non-empty expected domain.
C5_DomainBindingSIWS ==
    (SIWSCalled /\ resp.err = "nil") =>
        /\ req.params.ExpectedDomain # ""
        /\ req.msg.Domain = req.params.ExpectedDomain

(* ----------------------- VerifyEthereumSignature ----------------------- *)

\* A hex string: pfx leading "0x" markers, then digits that are well-formed
\* hex (hexOK) for the bytes they encode, or not.
removeHexPrefix(s) == IF s.pfx > 0 THEN [s EXCEPT !.pfx = s.pfx - 1] ELSE s

\* hex.DecodeString: the letter x is no hex digit.
HexDecodeOK(s) == s.pfx = 0 /\ s.hexOK

\* The EIP-191 text "\x19Ethereum Signed Message:\n" + len(message) + message
\* and its Keccak-256 digest; both are injective in the message.
PrefixedMessage(message) == [prefix |-> "Ethereum Signed Message", text |-> message]

Keccak256Hash(bytes) == [keccak |-> bytes]

\* An (r, s) pair: made by a key over a digest, recoverable under one
\* recovery id, or junk for which no curve point exists.
JunkRS == [signer |-> "none", hash |-> Keccak256Hash(EmptyText), recid |-> 0]

EcdsaSign(key, hash, recid) == [signer |-> key, hash |-> hash, recid |-> recid]

\* go-ethereum crypto.SigToPub(hash, sig): sig is [R || S || V] with V the raw
\* recovery id; a recovery byte of 4 or more is ErrInvalidRecoveryID. Ids 2
\* and 3 have no solution for the pairs used here. A pair recovered under
\* another digest or id yields an unrelated key.
SigToPub(hash, rs, v) ==
    IF v >= 4 THEN [ok |-> FALSE, key |-> "none"]
    ELSE IF v >= 2 \/ rs = JunkRS THEN [ok |-> FALSE, key |-> "none"]
    ELSE IF rs.hash = hash /\ rs.recid = v THEN [ok |-> TRUE, key |-> rs.signer]
    ELSE [ok |-> TRUE, key |-> "unrelated"]

PubkeyToAddress(key) == key

\* common.HexToAddress drops a "0x" marker itself and ignores letter case; a
\* string that still has a marker decodes to no bytes, the zero address.
HexToAddress(s) == IF removeHexPrefix(s).pfx = 0 THEN s.acct ELSE "zero"

VerifyEthereumSignature(message, signature, address) ==
    LET sig == removeHexPrefix(signature)
        addr == removeHexPrefix(address)
    IN IF ~HexDecodeOK(sig) THEN "siwe: invalid signature hex"
       ELSE IF sig.len # 65 THEN "siwe: invalid signature length"
       ELSE LET v == IF sig.v < 27 THEN (sig.v + 27) % 256 ELSE sig.v
                hash == Keccak256Hash(PrefixedMessage(message))
                pub == SigToPub(hash, sig.rs, v)
            IN IF ~pub.ok THEN "siwe: error recovering public key"
               ELSE IF PubkeyToAddress(pub.key) # HexToAddress(addr)
                    THEN "siwe: signature not from expected address"
               ELSE "nil"

EthTexts == {RawText, [kind |-> "raw2"]}

RecoveryBytes == {0, 1, 2, 26, 27, 28, 29, 255}

EthSignatures ==
    [pfx : 0..2, hexOK : BOOLEAN, len : {64, 65, 66},
     rs : {JunkRS}
          \cup {EcdsaSign(k, Keccak256Hash(PrefixedMessage(RawText)), i) :
                  k \in {"A", "B"}, i \in {0, 1}},
     v : RecoveryBytes]

EthAddresses == [pfx : 0..2, upper : BOOLEAN, acct : {"A", "B"}]

EthInputs ==
    [op : {"VerifyEthereumSignature"}, message : EthTexts,
     signature : EthSignatures, address : EthAddresses]

InitEth ==
    /\ provider = NoProvider
    /\ env = NoEnv
    /\ pc = "eth"
    /\ now = 1
    /\ req \in EthInputs
    /\ resp = NoResp

CallVerifyEthereumSignature ==
    /\ pc = "eth"
    /\ resp' = [op |-> "VerifyEthereumSignature",
                err |-> VerifyEthereumSignature(req.message, req.signature, req.address)]
    /\ UNCHANGED <<provider, now, pc, req, env>>

NextEth == CallVerifyEthereumSignature

SpecEth == InitEth /\ [][NextEth]_vars

EthCalled == resp.op = "VerifyEthereumSignature"

\* A genuine signature of the request's message by the claimed address, in
\* the raw (0/1) or the Ethereum (27/28) convention.
GenuineEthRequest ==
    /\ req.signature.pfx <= 1 /\ req.signature.hexOK /\ req.signature.len = 65
    /\ req.signature.rs # JunkRS
    /\ req.signature.rs.hash = Keccak256Hash(PrefixedMessage(req.message))
    /\ req.signature.v \in {req.signature.rs.recid, req.signature.rs.recid + 27}
    /\ req.address.pfx <= 1
    /\ req.address.acct = req.signature.rs.signer

\* C6: a signature with recovery byte v in {0, 1} has the same outcome as the
\* same (r, s) with v + 27, and a genuine signature of the message by the
\* claimed address verifies in both conventions.
C6_VNormalization ==
    EthCalled =>
        /\ req.signature.v \in {0, 1} =>
             resp.err = VerifyEthereumSignature(req.message,
                            [req.signature EXCEPT !.v = req.signature.v + 27],
                            req.address)
        /\ GenuineEthRequest => resp.err = "nil"

(* ------------------------------ Web3Provider --------------------------- *)

\* Errors are chains of wrapped messages, outermost first; <<>> is nil.
NilErr == <<>>

Errorf(prefix, cause) == <<prefix>> \o cause

NilClaim == [kind |-> "nil"]

ChainNames == {"eth-main", "sol-main"}

BlockchainConfigs ==
    {[NetworkName |-> BlockchainEthereum, ChainID |-> "1"],
     [NetworkName |-> BlockchainSolana, ChainID |-> "mainnet"],
     [NetworkName |-> "bitcoin", ChainID |-> "btc"]}

Registries == UNION {[S -> BlockchainConfigs] : S \in SUBSET ChainNames}

Malformed == [kind |-> "malformed"]

\* conf.Web3Configuration.ParseSupportedChains: the chain table of the
\* configuration, or an error for a malformed chain list.
ParseSupportedChains(config) ==
    IF config.SupportedChains = Malformed
    THEN [err |-> <<"invalid supported chains">>, chains |-> << >>]
    ELSE [err |-> NilErr, chains |-> config.SupportedChains]

Configurations ==
    [Enabled : BOOLEAN,
     Domain : {"", "example.com"},
     Statement : {"Sign in"},
     Version : {"1"},
     Timeout : 0..MaxDur,
     DefaultChain : {"", "unknown"} \cup ChainNames,
     SupportedChains : {Malformed} \cup Registries]

NewWeb3Provider_noDefaultCheck(config) ==
    IF ~config.Enabled
    THEN [err |-> <<"Web3 provider is not enabled">>, p |-> NoProvider]
    ELSE LET parsed == ParseSupportedChains(config)
         IN IF parsed.err # NilErr THEN [err |-> parsed.err, p |-> NoProvider]
            ELSE [err |-> NilErr,
                  p |-> [config |-> config, chains |-> parsed.chains,
                         defaultChain |-> config.DefaultChain]]

NewWeb3Provider(config) ==
    IF ~config.Enabled
    THEN [err |-> <<"Web3 provider is not enabled">>, p |-> NoProvider]
    ELSE LET parsed == ParseSupportedChains(config)
         IN IF parsed.err # NilErr THEN [err |-> parsed.err, p |-> NoProvider]
            ELSE IF /\ config.DefaultChain # ""
                    /\ config.DefaultChain \notin DOMAIN parsed.chains
                 THEN [err |-> <<"default chain not in supported chains">>,
                       p |-> NoProvider]
            ELSE [err |-> NilErr,
                  p |-> [config |-> config, chains |-> parsed.chains,
                         defaultChain |-> config.DefaultChain]]

\* siws.ParseSIWSMessage: the fields of a SIWS text, an error for other text.
ParseSIWSMessage(text) ==
    IF text.kind = "siws"
    THEN [err |-> NilErr, msg |-> text.m]
    ELSE [err |-> <<"invalid SIWS message">>, msg |-> NilMsg]

\* siws.ConstructMessage: the SIWS text of the fields.
ConstructMessage(msg) == [kind |-> "siws", m |-> msg]

\* base64.StdEncoding.DecodeString on a signature string.
Base64Decode(s) ==
    IF s.b64OK THEN [err |-> NilErr, bytes |-> s.ed]
    ELSE [err |-> <<"illegal base64 data">>, bytes |-> EmptySig]

verifyEthereumSignature(msg) ==
    LET e == VerifyEthereumSignature(msg.Message, msg.Signature, msg.Address)
    IN IF e = "nil" THEN NilErr ELSE <<e>>

verifySolanaSignature(p, msg, t) ==
    LET parsed == ParseSIWSMessage(msg.Message)
    IN IF parsed.err # NilErr
       THEN Errorf("failed to parse SIWS message", parsed.err)
       ELSE LET dec == Base64Decode(msg.Signature)
            IN IF dec.err # NilErr
               THEN Errorf("invalid signature encoding", dec.err)
               ELSE LET params == [ExpectedDomain |-> p.config.Domain,
                                   CheckTime |-> TRUE,
                                   TimeDuration |-> p.config.Timeout]
                        e == VerifySIWS(msg.Message, dec.bytes, parsed.msg, params, t)
                    IN IF e # "nil"
                       THEN Errorf("SIWS verification failed", <<e>>)
                       ELSE NilErr

IdentityClaim(msg) ==
    [Subject |-> <<msg.Chain, ":", msg.Address.text>>,
     CustomClaims |-> [address |-> msg.Address.text, chain |-> msg.Chain,
                       role |-> "authenticated"],
     Emails |-> << >>]

VerifySignedMessage_ignoreErr(p, msg, t) ==
    IF msg.Chain \notin DOMAIN p.chains
    THEN [err |-> <<"unsupported blockchain">>, claim |-> NilClaim]
    ELSE LET chain == p.chains[msg.Chain]
         IN IF chain.NetworkName \notin {BlockchainEthereum, BlockchainSolana}
            THEN [err |-> <<"signature verification not implemented">>,
                  claim |-> NilClaim]
            ELSE [err |-> NilErr, claim |-> IdentityClaim(msg)]

VerifySignedMessage(p, msg, t) ==
    IF msg.Chain \notin DOMAIN p.chains
    THEN [err |-> <<"unsupported blockchain">>, claim |-> NilClaim]
    ELSE LET chain == p.chains[msg.Chain]
         IN IF chain.NetworkName \notin {BlockchainEthereum, BlockchainSolana}
            THEN [err |-> <<"signature verification not implemented">>,
                  claim |-> NilClaim]
            ELSE LET err == IF chain.NetworkName = BlockchainEthereum
                            THEN verifyEthereumSignature(msg)
                            ELSE verifySolanaSignature(p, msg, t)
                 IN IF err # NilErr
                    THEN [err |-> Errorf("signature verification failed", err),
                          claim |-> NilClaim]
                    ELSE [err |-> NilErr, claim |-> IdentityClaim(msg)]

\* crypto.SecureToken: 16 random bytes, base64url, 22 characters.
SecureTokens == {"c2VjdXJlLXRva2VuLTAwMQ", "c2VjdXJlLXRva2VuLTAwMg"}

\* The chain GenerateSignMessage looks up: the default for an empty argument.
ResolveChain(p, chain) == IF chain = "" THEN p.defaultChain ELSE chain

GenerateSignMessage(p, address, chain, uri, nonce, t) ==
    LET c == ResolveChain(p, chain)
    IN IF c \notin DOMAIN p.chains
       THEN [err |-> <<"unsupported chain">>, text |-> EmptyText]
       ELSE LET chainCfg == p.chains[c]
            IN CASE chainCfg.NetworkName = BlockchainSolana ->
                      [err |-> NilErr,
                       text |-> ConstructMessage(
                                  [Domain |-> p.config.Domain, Address |-> address,
                                   Statement |-> p.config.Statement, URI |-> uri,
                                   Version |-> p.config.Version, ChainID |-> "",
                                   Nonce |-> nonce, Resources |-> << >>,
                                   IssuedAt |-> t, NotBefore |-> 0,
                                   ExpirationTime |-> 0])]
                 [] chainCfg.NetworkName = BlockchainEthereum ->
                      [err |-> NilErr,
                       text |-> [kind |-> "eip4361", Domain |-> p.config.Domain,
                                 Network |-> chainCfg.NetworkName,
                                 Address |-> address, URI |-> uri,
                                 Version |-> p.config.Version,
                                 ChainID |-> chainCfg.ChainID, Nonce |-> t,
                                 IssuedAt |-> t,
                                 ExpirationTime |-> t + p.config.Timeout]]
                 [] OTHER ->
                      [err |-> <<"message generation not implemented">>,
                       text |-> EmptyText]

(* --------------------- specification of the provider ------------------- *)

\* A signature string as its decoders read it: hex.DecodeString sees pfx,
\* hexOK, len, rs and v; base64.StdEncoding sees b64OK and ed.
\* 130 hex digits are no base64 (length not a multiple of 4); with one "0x"
\* they are 132 base64 characters encoding 99 bytes.
HexSigString(pfx, rs, v) ==
    [pfx |-> pfx, hexOK |-> TRUE, len |-> 65, rs |-> rs, v |-> v,
     b64OK |-> ((2 * pfx + 130) % 4 = 0),
     ed |-> [len |-> 99, signer |-> "none", text |-> EmptyText]]

\* The base64 of 64 bytes ends in "==" and is no hex; the empty string is
\* the hex of no bytes.
Base64SigString(ed) ==
    [pfx |-> 0, hexOK |-> (ed.len = 0), len |-> 0, rs |-> JunkRS, v |-> 0,
     b64OK |-> TRUE, ed |-> ed]

BadSigString ==
    [pfx |-> 0, hexOK |-> FALSE, len |-> 0, rs |-> JunkRS, v |-> 0,
     b64OK |-> FALSE, ed |-> EmptySig]

\* Address strings: base58 strings are no hex and name no Ethereum account.
RequestAddresses ==
    {[text |-> "addrA", pfx |-> 0, upper |-> FALSE, acct |-> "zero"],
     [text |-> "addrB", pfx |-> 0, upper |-> FALSE, acct |-> "zero"],
     [text |-> "0xaaaa", pfx |-> 1, upper |-> FALSE, acct |-> "A"],
     [text |-> "BBBB", pfx |-> 0, upper |-> TRUE, acct |-> "B"]}

AuthMessages ==
    [Domain : {"example.com", "Example.com"},
     Address : {"addrA", "addrB"},
     Statement : {"Sign in"},
     Version : {"1"},
     ChainID : {""},
     Nonce : {"c2VjdXJlLXRva2VuLTAwMQ"},
     URI : {"https://example.com"},
     Resources : {<<>>},
     IssuedAt : {1, MaxTime - 1},
     NotBefore : {0},
     ExpirationTime : {0}]

AuthTexts ==
    {EmptyText, [kind |-> "garbage"]} \cup {ConstructMessage(m) : m \in AuthMessages}

SignaturesOver(text) ==
    {BadSigString, Base64SigString(EmptySig),
     Base64SigString(Ed25519Sign("A", text)),
     Base64SigString(Ed25519Sign("B", text)),
     Base64SigString(Ed25519Sign("A", RawText)),
     HexSigString(1, EcdsaSign("A", Keccak256Hash(PrefixedMessage(text)), 0), 0),
     HexSigString(1, EcdsaSign("A", Keccak256Hash(PrefixedMessage(text)), 0), 27),
     HexSigString(0, EcdsaSign("B", Keccak256Hash(PrefixedMessage(text)), 1), 28)}

InitAuth ==
    /\ provider = NoProvider
    /\ env = NoEnv
    /\ pc = "start"
    /\ now = 1
    /\ req = NoReq
    /\ resp = NoResp

CallNewWeb3Provider ==
    /\ pc = "start"
    /\ \E config \in Configurations :
         LET r == NewWeb3Provider(config)
         IN /\ provider' = r.p
            /\ req' = [op |-> "NewWeb3Provider", config |-> config]
            /\ resp' = [op |-> "NewWeb3Provider", err |-> r.err]
            /\ pc' = IF r.err = NilErr THEN "idle" ELSE "start"
    /\ UNCHANGED <<now, env>>

CallVerifySignedMessage ==
    /\ pc = "idle"
    /\ \E chain \in ChainNames \cup {"unknown"}, address \in RequestAddresses,
          text \in AuthTexts :
         \E signature \in SignaturesOver(text) :
           LET msg == [op |-> "VerifySignedMessage", Message |-> text,
                       Signature |-> signature, Address |-> address,
                       Chain |-> chain]
               r == VerifySignedMessage(provider, msg, now)
           IN /\ req' = msg
              /\ resp' = [op |-> "VerifySignedMessage", at |-> now,
                          err |-> r.err, claim |-> r.claim]
    /\ pc' = "called"
    /\ UNCHANGED <<provider, now, env>>

CallGenerateSignMessage ==
    /\ pc = "idle"
    /\ \E address \in {"addrA"}, chain \in ChainNames \cup {"", "unknown"},
          uri \in {"https://example.com"}, nonce \in SecureTokens :
         LET r == GenerateSignMessage(provider, address, chain, uri, nonce, now)
         IN /\ req' = [op |-> "GenerateSignMessage", address |-> address,
                       chain |-> chain, uri |-> uri]
            /\ resp' = [op |-> "GenerateSignMessage", at |-> now,
                        err |-> r.err, text |-> r.text]
    /\ pc' = "called"
    /\ UNCHANGED <<provider, now, env>>

\* The caller takes the result; request and result are per-call values.
Return ==
    /\ pc = "called"
    /\ pc' = "idle"
    /\ req' = NoReq
    /\ resp' = NoResp
    /\ UNCHANGED <<provider, now, env>>

NextAuth ==
    \/ CallNewWeb3Provider
    \/ CallVerifySignedMessage
    \/ CallGenerateSignMessage
    \/ Return
    \/ Tick

SpecAuth == InitAuth /\ [][NextAuth]_vars

\* VerifySIWS called directly, and through the provider.
SpecDomain == (InitSIWS \/ InitAuth) /\ [][NextSIWS \/ NextAuth]_vars

(* -------------------------- claims on the provider --------------------- *)

Verified == resp.op = "VerifySignedMessage"

ClaimReturned == Verified /\ resp.claim # NilClaim

Family == provider.chains[req.Chain].NetworkName

\* The address whose key the signature was checked against: the address
\* field of the signed SIWS text, or the claimed Ethereum address.
VerifiedAddress ==
    IF Family = BlockchainSolana
    THEN ParseSIWSMessage(req.Message).msg.Address
    ELSE req.Address.text

\* C1: the address in a returned claim's subject and customClaims is the
\* address whose key the signature was checked against.
C1_ClaimIsVerifiedAddress ==
    ClaimReturned =>
        /\ resp.claim.CustomClaims.address = VerifiedAddress
        /\ resp.claim.Subject = <<req.Chain, ":", VerifiedAddress>>

\* The verifier of the request's network family, at the time of the call.
VerifierErr ==
    IF Family = BlockchainEthereum THEN verifyEthereumSignature(req)
    ELSE verifySolanaSignature(provider, req, resp.at)

VerifierSucceeded ==
    /\ req.Chain \in DOMAIN provider.chains
    /\ Family \in {BlockchainEthereum, BlockchainSolana}
    /\ VerifierErr = NilErr

\* C2: a claim is returned only when the chain is registered and its
\* family's verifier succeeded; otherwise an error and no claim; a returned
\* claim is subject = chain:address, customClaims = {address, chain, role}.
C2_ClaimOnlyOnSuccess ==
    Verified =>
        /\ (resp.claim # NilClaim) <=> VerifierSucceeded
        /\ (resp.claim # NilClaim) <=> (resp.err = NilErr)
        /\ resp.claim # NilClaim =>
             /\ resp.claim.Subject = <<req.Chain, ":", req.Address.text>>
             /\ resp.claim.CustomClaims =
                  [address |-> req.Address.text, chain |-> req.Chain,
                   role |-> "authenticated"]

C2_Witness ==
    /\ ClaimReturned
    /\ resp.claim.CustomClaims.role = "authenticated"
    /\ VerifierSucceeded

\* C5: VerifySIWS never succeeds unless the message's domain is exactly the
\* non-empty expected domain, and no Solana-family request yields a claim
\* unless the signed message's domain is the provider's configured domain.
C5_DomainBinding ==
    /\ C5_DomainBindingSIWS
    /\ (ClaimReturned /\ Family = BlockchainSolana) =>
         ParseSIWSMessage(req.Message).msg.Domain = provider.config.Domain

\* An otherwise valid message whose domain differs by case only is rejected.
C5_Witness ==
    /\ SIWSCalled
    /\ req.msg # NilMsg
    /\ req.msg.Domain = "Example.com"
    /\ req.params.ExpectedDomain = "example.com"
    /\ \A k \in (1..17) \ {6} : ~SIWSCheckFails(k, req, resp.at)
    /\ resp.err = "ErrDomainMismatch"

Generated == resp.op = "GenerateSignMessage"

UnsupportedChain == <<"unsupported chain">>

C9_Resolution ==
    /\ Generated =>
         LET c == IF req.chain = "" THEN provider.defaultChain ELSE req.chain
         IN /\ (resp.err = UnsupportedChain) <=> (c \notin DOMAIN provider.chains)
            /\ resp.err = UnsupportedChain => resp.text = EmptyText
            /\ (req.chain = "" /\ provider.defaultChain # "")
                 => resp.err # UnsupportedChain
    /\ provider # NoProvider =>
         (provider.defaultChain = "" \/ provider.defaultChain \in DOMAIN provider.chains)
    /\ (resp.op = "NewWeb3Provider" /\ req.config.DefaultChain # ""
          /\ req.config.SupportedChains # Malformed
          /\ req.config.DefaultChain \notin DOMAIN req.config.SupportedChains)
         => (resp.err # NilErr /\ provider = NoProvider)

\* C9: an empty chain argument resolves to the default chain; the
\* unsupported-chain error is returned, without text, exactly when the
\* resolved chain is not registered; construction rejects an unregistered
\* non-empty default and nothing changes the provider afterwards, so an
\* empty chain argument is never unsupported when a default is configured.
C9_ChainResolution ==
    /\ []C9_Resolution
    /\ [][provider # NoProvider => provider' = provider]_vars

C9_Witness ==
    /\ Generated
    /\ req.chain = ""
    /\ provider.defaultChain # ""
    /\ resp.err = NilErr
    /\ resp.at > 1

(* --------------------------- EncryptedString --------------------------- *)

NilBytes == [kind |-> "raw", len |-> 0]

NilES == [kind |-> "nil"]

\* base64.RawURLEncoding.DecodeString on a key string [text, b64OK, len, mat].
RawURLDecode(k) ==
    IF k.b64OK THEN [err |-> NilErr, len |-> k.len, mat |-> k.mat]
    ELSE [err |-> <<"illegal base64 data">>, len |-> 0, mat |-> "none"]

\* hkdf.New(sha256.New, secret, nil, info) read for 32 bytes.
HKDF(secret, info) == [secret |-> secret, info |-> info]

deriveSymmetricKey_noInfo(id, keyID, keyBase64URL) ==
    LET dec == RawURLDecode(keyBase64URL)
    IN IF dec.err # NilErr THEN [err |-> dec.err, key |-> HKDF("none", "")]
       ELSE IF dec.len # 32
            THEN [err |-> <<"crypto: key is not 256 bits">>, key |-> HKDF("none", "")]
       ELSE [err |-> NilErr, key |-> HKDF(dec.mat, "")]

deriveSymmetricKey(id, keyID, keyBase64URL) ==
    LET dec == RawURLDecode(keyBase64URL)
    IN IF dec.err # NilErr THEN [err |-> dec.err, key |-> HKDF("none", "")]
       ELSE IF dec.len # 32
            THEN [err |-> <<"crypto: key is not 256 bits">>, key |-> HKDF("none", "")]
       ELSE [err |-> NilErr, key |-> HKDF(dec.mat, id)]

GcmTagSize == 16

\* cipher.AEAD.Seal(nil, nonce, plaintext, nil) of AES-256-GCM.
Seal(key, nonce, plaintext) ==
    [kind |-> "sealed", key |-> key, nonce |-> nonce, pt |-> plaintext,
     len |-> Len(plaintext) + GcmTagSize]

\* cipher.AEAD.Open(nil, nonce, data, nil): the tag verifies only under the
\* key and nonce the data was sealed with.
Open(key, nonce, data) ==
    IF data.kind = "sealed" /\ data.key = key /\ data.nonce = nonce
    THEN [err |-> NilErr, pt |-> data.pt]
    ELSE [err |-> <<"cipher: message authentication failed">>, pt |-> << >>]

NewEncryptedString(id, data, keyID, keyBase64URL, nonce) ==
    LET d == deriveSymmetricKey(id, keyID, keyBase64URL)
    IN IF d.err # NilErr THEN [err |-> d.err, es |-> NilES]
       ELSE [err |-> NilErr,
             es |-> [KeyID |-> keyID, Algorithm |-> "aes-gcm-hkdf",
                     Nonce |-> nonce, Data |-> Seal(d.key, nonce, data)]]

\* A Go map read: the zero value "" for a missing key.
EmptyKeyString == [text |-> "", b64OK |-> TRUE, len |-> 0, mat |-> "none"]

MapGet(m, k) == IF k \in DOMAIN m THEN m[k] ELSE EmptyKeyString

Decrypt_swappedContext(es, id, decryptionKeys) ==
    LET decryptionKey == MapGet(decryptionKeys, es.KeyID)
    IN IF decryptionKey.text = ""
       THEN [err |-> <<"crypto: decryption key does not exist">>, data |-> << >>]
       ELSE LET d == deriveSymmetricKey(es.KeyID, id, decryptionKey)
            IN IF d.err # NilErr THEN [err |-> d.err, data |-> << >>]
               ELSE LET o == Open(d.key, es.Nonce, es.Data)
                    IN IF o.err # NilErr THEN [err |-> o.err, data |-> << >>]
                       ELSE [err |-> NilErr, data |-> o.pt]

Decrypt(es, id, decryptionKeys) ==
    LET decryptionKey == MapGet(decryptionKeys, es.KeyID)
    IN IF decryptionKey.text = ""
       THEN [err |-> <<"crypto: decryption key does not exist">>, data |-> << >>]
       ELSE LET d == deriveSymmetricKey(id, es.KeyID, decryptionKey)
            IN IF d.err # NilErr THEN [err |-> d.err, data |-> << >>]
               ELSE LET o == Open(d.key, es.Nonce, es.Data)
                    IN IF o.err # NilErr THEN [err |-> o.err, data |-> << >>]
                       ELSE [err |-> NilErr, data |-> o.pt]

IsValid(es) ==
    /\ es.KeyID # ""
    /\ es.Data.len > 0
    /\ es.Nonce.len > 0
    /\ es.Algorithm = "aes-gcm-hkdf"

\* encoding/json writes a string with invalid UTF-8 bytes replaced by U+FFFD.
JsonString(str) == IF str = "key<ff>" THEN "key<fffd>" ELSE str

\* EncryptedString.String: json.Marshal of the struct; nonce is omitempty.
String(es) ==
    [brace |-> TRUE, json |-> TRUE,
     obj |-> IF es.Nonce.len = 0
             THEN [key_id |-> JsonString(es.KeyID), alg |-> JsonString(es.Algorithm),
                   data |-> es.Data]
             ELSE [key_id |-> JsonString(es.KeyID), alg |-> JsonString(es.Algorithm),
                   data |-> es.Data, nonce |-> es.Nonce]]

\* json.Unmarshal into EncryptedString: absent members keep the zero value.
Unmarshal(obj) ==
    [KeyID |-> IF "key_id" \in DOMAIN obj THEN obj.key_id ELSE "",
     Algorithm |-> IF "alg" \in DOMAIN obj THEN obj.alg ELSE "",
     Nonce |-> IF "nonce" \in DOMAIN obj THEN obj.nonce ELSE [len |-> 0, id |-> ""],
     Data |-> IF "data" \in DOMAIN obj THEN obj.data ELSE NilBytes]

ParseEncryptedString(str) ==
    IF ~str.brace THEN NilES
    ELSE IF ~str.json THEN NilES
    ELSE IF ~IsValid(Unmarshal(str.obj)) THEN NilES
    ELSE Unmarshal(str.obj)

(* -------------------- specification of the envelope -------------------- *)

RecordIDs == {"A", "B"}

KeyIDs == {"", "k1", "key<ff>"}

KeyStrings ==
    {[text |-> "K1", b64OK |-> TRUE, len |-> 32, mat |-> "K1"],
     [text |-> "K2", b64OK |-> TRUE, len |-> 32, mat |-> "K2"],
     [text |-> "short", b64OK |-> TRUE, len |-> 16, mat |-> "short"],
     [text |-> "!!", b64OK |-> FALSE, len |-> 0, mat |-> "none"]}

GcmNonces == {[len |-> 12, id |-> "n1"], [len |-> 12, id |-> "n2"]}

Payloads == UNION {[1..n -> 0..1] : n \in 0..MaxLen}

\* Lookup tables: empty, or one key ID mapped to one key string.
KeyTables == {<< >>} \cup {[x \in {k} |-> s] : k \in KeyIDs, s \in KeyStrings}

ForeignData == [kind |-> "raw", len |-> 20]

SampleStrings ==
    {[brace |-> FALSE, json |-> FALSE, obj |-> [alg |-> "plaintext"]],
     [brace |-> TRUE, json |-> FALSE, obj |-> [alg |-> "{oops"]],
     [brace |-> TRUE, json |-> TRUE,
      obj |-> [key_id |-> "k1", alg |-> "aes-gcm-hkdf", data |-> ForeignData,
               nonce |-> [len |-> 12, id |-> "n1"]]],
     [brace |-> TRUE, json |-> TRUE,
      obj |-> [key_id |-> "k1", alg |-> "aes-gcm", data |-> ForeignData,
               nonce |-> [len |-> 12, id |-> "n1"]]],
     [brace |-> TRUE, json |-> TRUE,
      obj |-> [key_id |-> "k1", alg |-> "aes-gcm-hkdf", data |-> ForeignData]],
     [brace |-> TRUE, json |-> TRUE,
      obj |-> [alg |-> "aes-gcm-hkdf", data |-> ForeignData,
               nonce |-> [len |-> 12, id |-> "n1"]]],
     [brace |-> TRUE, json |-> TRUE,
      obj |-> [key_id |-> "k1", alg |-> "aes-gcm-hkdf",
               nonce |-> [len |-> 12, id |-> "n1"]]]}

InitCrypto ==
    /\ provider = NoProvider
    /\ env = NoEnv
    /\ pc = "crypto"
    /\ now = 1
    /\ req = NoReq
    /\ resp = NoResp

\* The envelope of one record is created once, with fresh random nonce.
CallNewEncryptedString ==
    /\ pc = "crypto"
    /\ env = NoEnv
    /\ \E id \in RecordIDs, data \in Payloads, keyID \in KeyIDs,
          key \in KeyStrings, nonce \in GcmNonces :
         LET r == NewEncryptedString(id, data, keyID, key, nonce)
         IN /\ req' = [op |-> "NewEncryptedString", id |-> id, data |-> data,
                       keyID |-> keyID, keyBase64URL |-> key]
            /\ resp' = [op |-> "NewEncryptedString", err |-> r.err]
            /\ env' = IF r.err = NilErr
                      THEN [kind |-> "envelope", es |-> r.es, id |-> id,
                            data |-> data, keyBase64URL |-> key]
                      ELSE NoEnv
    /\ UNCHANGED <<provider, now, pc>>

CallDecrypt ==
    /\ pc = "crypto"
    /\ env # NoEnv
    /\ \E id \in RecordIDs, keys \in KeyTables :
         LET r == Decrypt(env.es, id, keys)
         IN /\ req' = [op |-> "Decrypt", id |-> id, keys |-> keys]
            /\ resp' = [op |-> "Decrypt", err |-> r.err, data |-> r.data]
    /\ UNCHANGED <<provider, now, pc, env>>

CallParseEncryptedString ==
    /\ pc = "crypto"
    /\ \E str \in SampleStrings \cup (IF env = NoEnv THEN {} ELSE {String(env.es)}) :
         /\ req' = [op |-> "ParseEncryptedString", str |-> str]
         /\ resp' = [op |-> "ParseEncryptedString", es |-> ParseEncryptedString(str)]
    /\ UNCHANGED <<provider, now, pc, env>>

NextCrypto ==
    \/ CallNewEncryptedString
    \/ CallDecrypt
    \/ CallParseEncryptedString

SpecCrypto == InitCrypto /\ [][NextCrypto]_vars

(* -------------------------- claims on the envelope --------------------- *)

Decrypted == resp.op = "Decrypt" /\ env # NoEnv

\* The lookup table maps the envelope's key ID to the key it was made with.
SameKeyMaterial ==
    /\ env.es.KeyID \in DOMAIN req.keys
    /\ req.keys[env.es.KeyID] = env.keyBase64URL

\* C7: Decrypt with the record ID and key material of NewEncryptedString
\* returns the original payload and no error.
C7_RoundTrip ==
    (Decrypted /\ req.id = env.id /\ SameKeyMaterial) =>
        (resp.err = NilErr /\ resp.data = env.data)

C7_Witness ==
    /\ Decrypted /\ req.id = env.id /\ SameKeyMaterial
    /\ env.data = << >>
    /\ resp.err = NilErr

\* C8: Decrypt under another record ID with the same key material returns
\* the authentication error and no plaintext.
C8_RecordBinding ==
    (Decrypted /\ req.id # env.id /\ SameKeyMaterial) =>
        /\ resp.err = <<"cipher: message authentication failed">>
        /\ resp.data = << >>

C8_Witness ==
    /\ Decrypted /\ req.id = "B" /\ env.id = "A" /\ SameKeyMaterial
    /\ Len(env.data) > 0
    /\ resp.err # NilErr

Parsed == resp.op = "ParseEncryptedString"

\* C10: every envelope NewEncryptedString returns is valid, and parsing its
\* serialized form returns an equal envelope; ParseEncryptedString returns
\* absent for input not starting with "{" or whose fields fail IsValid.
C10_ValidEnvelope ==
    /\ env # NoEnv => IsValid(env.es)
    /\ (Parsed /\ env # NoEnv /\ req.str = String(env.es)) => resp.es = env.es
    /\ (Parsed /\ (~req.str.brace \/ ~IsValid(Unmarshal(req.str.obj))))
         => resp.es = NilES

====
